---- MODULE Spec2Model ----
(***************************************************************************)
(* Model of the Hospital_CRM query gateway (src/main.py).                  *)
(*                                                                         *)
(* Text values are sequences of one-character strings, so that the         *)
(* identifier regular expression, str.strip() and the wildcard wrapping    *)
(* of search_patients are computed character by character.  Python's None  *)
(* is the one-element sequence NONE, which no text of the model equals.    *)
(*                                                                         *)
(* One action models one whole call of one operation.  The call leaves in  *)
(* `call` the ordered events it produced (identifier validations,          *)
(* connection acquire/release, statements sent) and its outcome.           *)
(***************************************************************************)
EXTENDS Integers, Sequences, FiniteSets, TLC

VARIABLES
    DATABASE_URL,   \* TRUE iff the environment sets a non-empty DATABASE_URL
    DB_SCHEMA,      \* the configured schema name (text)
    patients,       \* rows of <schema>.patients, in insertion order
    appointments,   \* rows of <schema>.appointments
    notes,          \* rows of <schema>.notes
    call            \* the last call: operation, arguments, events, outcome

vars == <<DATABASE_URL, DB_SCHEMA, patients, appointments, notes, call>>

----------------------------------------------------------------------------
(* Bounds of the model *)

\* The number of rows the insert operations add in one behaviour.
MaxRows == 2

----------------------------------------------------------------------------
(* Text *)

NONE == <<"None">>

Min(a, b) == IF a < b THEN a ELSE b

Take(s, n) == SubSeq(s, 1, Min(n, Len(s)))

Letters ==
    {"a","b","c","d","e","f","g","h","i","j","k","l","m",
     "n","o","p","q","r","s","t","u","v","w","x","y","z",
     "A","B","C","D","E","F","G","H","I","J","K","L","M",
     "N","O","P","Q","R","S","T","U","V","W","X","Y","Z"}

Digits == {"0","1","2","3","4","5","6","7","8","9"}

Whitespace == {" ", "\t", "\n", "\r"}

\* Python truthiness of an Optional[str]: None and "" are falsy.
Falsy(s) == s = NONE \/ s = <<>>

RECURSIVE LStrip(_)
LStrip(s) ==
    IF s # <<>> /\ Head(s) \in Whitespace THEN LStrip(Tail(s)) ELSE s

RECURSIVE RStrip(_)
RStrip(s) ==
    IF s # <<>> /\ s[Len(s)] \in Whitespace
    THEN RStrip(SubSeq(s, 1, Len(s) - 1)) ELSE s

\* str.strip()
Strip(s) == RStrip(LStrip(s))

----------------------------------------------------------------------------
(* Identifier validation *)

\* _ident_re.match(name): "^" anchors at position 1, the character classes
\* consume k >= 1 characters, and Python's "$" (no MULTILINE flag) matches at
\* the end of the string and also just before a newline that ends the string.
IdentMatch(name) ==
    /\ Len(name) >= 1
    /\ name[1] \in Letters \cup {"_"}
    /\ \E k \in 1..Len(name) :
          /\ \A i \in 2..k : name[i] \in Letters \cup Digits \cup {"_"}
          /\ \/ k = Len(name)
             \/ k = Len(name) - 1 /\ name[Len(name)] = "\n"

\* _validate_ident(name): ok = FALSE stands for raising ValueError
\* ("Invalid identifier"), otherwise val is the returned string.
_validate_ident(name) == [ok |-> IdentMatch(name), val |-> name]

----------------------------------------------------------------------------
(* Dates and timestamps *)

DigitVal(c) ==
    CASE c = "0" -> 0 [] c = "1" -> 1 [] c = "2" -> 2 [] c = "3" -> 3
      [] c = "4" -> 4 [] c = "5" -> 5 [] c = "6" -> 6 [] c = "7" -> 7
      [] c = "8" -> 8 [] c = "9" -> 9

IsLeap(y) == (y % 4 = 0 /\ y % 100 # 0) \/ y % 400 = 0

DaysInMonth(y, m) ==
    IF m = 2 THEN (IF IsLeap(y) THEN 29 ELSE 28)
    ELSE IF m \in {4, 6, 9, 11} THEN 30 ELSE 31

\* date.fromisoformat on the YYYY-MM-DD form the source accepts.
IsIsoDate(s) ==
    /\ Len(s) = 10
    /\ s[5] = "-" /\ s[8] = "-"
    /\ \A i \in {1, 2, 3, 4, 6, 7, 9, 10} : s[i] \in Digits
    /\ LET y == 1000 * DigitVal(s[1]) + 100 * DigitVal(s[2])
                + 10 * DigitVal(s[3]) + DigitVal(s[4])
           m == 10 * DigitVal(s[6]) + DigitVal(s[7])
           d == 10 * DigitVal(s[9]) + DigitVal(s[10])
       IN  /\ y >= 1
           /\ m \in 1..12
           /\ d >= 1 /\ d <= DaysInMonth(y, m)

\* _parse_date(value): None for an absent or empty value, otherwise the
\* parsed date (kept as its text); ok = FALSE stands for ValueError.
_parse_date(value) ==
    IF value = NONE \/ value = <<>> THEN [ok |-> TRUE, val |-> NONE]
    ELSE [ok |-> IsIsoDate(value), val |-> value]

\* Mutant of _parse_ts: only the empty value is rejected, blank text passes.
_parse_ts_NoBlankCheck(value) ==
    IF Falsy(value) THEN [ok |-> FALSE, val |-> value]
    ELSE [ok |-> TRUE, val |-> Strip(value)]

\* _parse_ts(value): ok = FALSE stands for ValueError("timestamp is
\* required"), otherwise val is value.strip().
_parse_ts(value) ==
    IF Falsy(value) \/ Falsy(Strip(value)) THEN [ok |-> FALSE, val |-> value]
    ELSE [ok |-> TRUE, val |-> Strip(value)]

----------------------------------------------------------------------------
(* Values bound to placeholders, and rows *)

\* A bound parameter or column value, tagged with its type.
Null == [t |-> "null", v |-> 0]
IntV(n) == [t |-> "int", v |-> n]
TextV(s) == IF s = NONE THEN Null ELSE [t |-> "text", v |-> s]

\* The characters of the table-name literals of the source.
Chars(name) ==
    CASE name = "patients" ->
           <<"p","a","t","i","e","n","t","s">>
      [] name = "patient_contacts" ->
           <<"p","a","t","i","e","n","t","_","c","o","n","t","a","c","t","s">>
      [] name = "appointments" ->
           <<"a","p","p","o","i","n","t","m","e","n","t","s">>
      [] name = "providers" ->
           <<"p","r","o","v","i","d","e","r","s">>
      [] name = "departments" ->
           <<"d","e","p","a","r","t","m","e","n","t","s">>
      [] name = "cases" ->
           <<"c","a","s","e","s">>
      [] name = "encounters" ->
           <<"e","n","c","o","u","n","t","e","r","s">>
      [] name = "notes" ->
           <<"n","o","t","e","s">>
      [] name = "tasks" ->
           <<"t","a","s","k","s">>
      [] name = "communications" ->
           <<"c","o","m","m","u","n","i","c","a","t","i","o","n","s">>
      [] name = "invoices" ->
           <<"i","n","v","o","i","c","e","s">>
      [] name = "payments" ->
           <<"p","a","y","m","e","n","t","s">>
      [] name = "claims" ->
           <<"c","l","a","i","m","s">>
      [] name = "payers" ->
           <<"p","a","y","e","r","s">>
      [] name = "allergies" ->
           <<"a","l","l","e","r","g","i","e","s">>
      [] name = "prescriptions" ->
           <<"p","r","e","s","c","r","i","p","t","i","o","n","s">>
      [] name = "medications" ->
           <<"m","e","d","i","c","a","t","i","o","n","s">>

\* The range checks of the read operations: limit 1..200, days 1..365.
MaxLimit == 200
MaxDays == 365

\* Mutant of LimitOutOfRange: the upper bound itself is rejected.
LimitOutOfRangeExclusive(limit) == limit < 1 \/ limit >= MaxLimit

LimitOutOfRange(limit) == limit < 1 \/ limit > MaxLimit
DaysOutOfRange(days) == days < 1 \/ days > MaxDays

----------------------------------------------------------------------------
(* Events and outcomes of a call *)

EvValidate(name, ok) == [ev |-> "validate", name |-> name, ok |-> ok]
EvAcquire == [ev |-> "acquire"]
EvRelease == [ev |-> "release"]
\* cur.execute(text, params): ok = FALSE when the store reports an error.
EvExecute(stmt, ok) == [ev |-> "execute", stmt |-> stmt, ok |-> ok]

RaiseO(err) == [kind |-> "raise", err |-> err]
ReturnO(v) == [kind |-> "return", value |-> v]

Raise(events, err) == [events |-> events, outcome |-> RaiseO(err)]
Return(events, v) == [events |-> events, outcome |-> ReturnO(v)]

\* A statement: the identifiers interpolated into its text (in text
\* order), the role of each %s placeholder in text order, the bound values in
\* the order given to cur.execute, and for an INSERT its column list and its
\* VALUES list ("%s" or "now()").
Stmt(name, idents, placeholders, params) ==
    [name |-> name, idents |-> idents, placeholders |-> placeholders,
     params |-> params, columns |-> <<>>, values |-> <<>>]

\* The columns that the %s entries of a VALUES list stand for, in text order
\* (a placeholder beyond the column list has no column: "?").
RECURSIVE PlaceholderColumns(_, _)
PlaceholderColumns(columns, values) ==
    IF values = <<>> THEN <<>>
    ELSE (IF Head(values) = "%s"
          THEN <<IF columns = <<>> THEN "?" ELSE Head(columns)>>
          ELSE <<>>)
         \o PlaceholderColumns(IF columns = <<>> THEN <<>> ELSE Tail(columns),
                               Tail(values))

\* An INSERT statement: a placeholder's role is the column at its position.
InsertStmt(name, idents, columns, values, params) ==
    [name |-> name, idents |-> idents,
     placeholders |-> PlaceholderColumns(columns, values),
     params |-> params, columns |-> columns, values |-> values]

----------------------------------------------------------------------------
(* Identifier interpolation and the connection *)

\* _schema(): validates the configured schema name on every use.
_schema ==
    LET r == _validate_ident(DB_SCHEMA)
    IN  [ok |-> r.ok, val |-> r.val, events |-> <<EvValidate(DB_SCHEMA, r.ok)>>]

\* _q_table(table): "<schema>"."<table>" after validating both, schema first.
_q_table(table) ==
    LET s == _schema
    IN  IF ~s.ok THEN [ok |-> FALSE, events |-> s.events, idents |-> <<>>]
        ELSE LET t == _validate_ident(table)
             IN  [ok |-> t.ok,
                  events |-> s.events \o <<EvValidate(table, t.ok)>>,
                  idents |-> IF t.ok THEN <<s.val, t.val>> ELSE <<>>]

\* The _q_table(...) calls of one f-string, evaluated left to right; the
\* first failing validation ends the evaluation.
RECURSIVE QTables(_)
QTables(tables) ==
    IF tables = <<>> THEN [ok |-> TRUE, events |-> <<>>, idents |-> <<>>]
    ELSE LET q == _q_table(Chars(Head(tables)))
         IN  IF ~q.ok THEN q
             ELSE LET rest == QTables(Tail(tables))
                  IN  [ok |-> rest.ok,
                       events |-> q.events \o rest.events,
                       idents |-> q.idents \o rest.idents]

\* Mutant of WithConn: the connection is released on normal return only.
WithConnLeakOnError(pre, connectFails, body) ==
    IF ~DATABASE_URL THEN Raise(pre, "ConfigurationMissing")
    ELSE IF connectFails THEN Raise(pre, "StoreError")
    ELSE [events |-> pre \o <<EvAcquire>> \o body.events
                     \o (IF body.outcome.kind = "return"
                         THEN <<EvRelease>> ELSE <<>>),
          outcome |-> body.outcome]

\* "with get_conn() as conn, conn.cursor() as cur: body".  get_conn raises
\* RuntimeError without DATABASE_URL; psycopg.connect may fail (connectFails);
\* otherwise the body runs and the connection's context manager closes the
\* connection however the body ends.  `pre` are the events before the with.
WithConn(pre, connectFails, body) ==
    IF ~DATABASE_URL THEN Raise(pre, "ConfigurationMissing")
    ELSE IF connectFails THEN Raise(pre, "StoreError")
    ELSE [events |-> pre \o <<EvAcquire>> \o body.events \o <<EvRelease>>,
          outcome |-> body.outcome]

\* One cur.execute followed by the fetch that produces `result`.  The driver
\* itself rejects a statement whose placeholders and parameters differ in
\* number (psycopg.ProgrammingError), as the store rejects one when `fails`.
Exec1(stmt, fails, result) ==
    IF fails \/ Len(stmt.placeholders) # Len(stmt.params)
    THEN Raise(<<EvExecute(stmt, FALSE)>>, "StoreError")
    ELSE Return(<<EvExecute(stmt, TRUE)>>, result)

----------------------------------------------------------------------------
(* The store: how it answers the statements of the gateway *)

\* Rows (by id, in the statement's ORDER BY order) of the tables that no
\* operation of the catalog writes to.
StaticRows(table, patient_id) ==
    CASE table = "cases" /\ patient_id = 1 -> <<11, 12>>
      [] table = "cases" /\ patient_id = 2 -> <<13>>
      [] table = "encounters" /\ patient_id = 1 -> <<21>>
      [] table = "tasks" /\ patient_id = 1 -> <<41, 42, 43>>
      [] table = "patient_contacts" /\ patient_id = 1 -> <<61, 62>>
      [] table = "invoices" /\ patient_id = 1 -> <<71, 72>>
      [] table = "claims" /\ patient_id = 1 -> <<81>>
      [] table = "allergies" /\ patient_id = 1 -> <<91, 92, 93>>
      [] table = "prescriptions" /\ patient_id = 1 -> <<95, 96>>
      [] OTHER -> <<>>

\* The base tables the store reports for the configured schema.
SchemaTables ==
    <<"allergies", "appointments", "cases", "claims", "communications",
      "departments", "encounters", "invoices", "medications", "notes",
      "patient_contacts", "patients", "payers", "payments", "prescriptions",
      "providers", "tasks">>

RECURSIVE Reverse(_)
Reverse(s) == IF s = <<>> THEN <<>> ELSE Reverse(Tail(s)) \o <<Head(s)>>

RECURSIVE MapIds(_, _)
MapIds(rows, field) ==
    IF rows = <<>> THEN <<>>
    ELSE <<Head(rows)[field]>> \o MapIds(Tail(rows), field)

\* The value bound for `role` in a statement.
ParamFor(stmt, role) ==
    stmt.params[CHOOSE i \in 1..Len(stmt.placeholders) :
                    stmt.placeholders[i] = role]

\* The rows a statement's "limit %s" lets through; a statement without a
\* limit clause returns every matching row.
Limited(stmt, rows) ==
    IF \E i \in 1..Len(stmt.placeholders) : stmt.placeholders[i] = "limit"
    THEN Take(rows, ParamFor(stmt, "limit").v)
    ELSE rows

UpperCase ==
    <<"A","B","C","D","E","F","G","H","I","J","K","L","M",
      "N","O","P","Q","R","S","T","U","V","W","X","Y","Z">>
LowerCase ==
    <<"a","b","c","d","e","f","g","h","i","j","k","l","m",
      "n","o","p","q","r","s","t","u","v","w","x","y","z">>

ToLower(c) ==
    IF \E i \in 1..Len(UpperCase) : UpperCase[i] = c
    THEN LowerCase[CHOOSE i \in 1..Len(UpperCase) : UpperCase[i] = c]
    ELSE c

LowerText(s) == [i \in 1..Len(s) |-> ToLower(s[i])]

Contains(hay, needle) ==
    \E k \in 0..(Len(hay) - Len(needle)) :
        \A i \in 1..Len(needle) : hay[k + i] = needle[i]

\* value ILIKE pattern, for the patterns %text% that search_patients binds.
ILike(value, pattern) ==
    /\ value.t = "text" /\ pattern.t = "text"
    /\ Len(pattern.v) >= 2
    /\ Contains(LowerText(value.v),
                LowerText(SubSeq(pattern.v, 2, Len(pattern.v) - 1)))

\* The WHERE clause of search_patients, read off the statement.
PatientMatches(row, stmt) ==
    \A i \in 1..Len(stmt.placeholders) :
        /\ stmt.placeholders[i] = "mrn" => row.mrn = stmt.params[i]
        /\ stmt.placeholders[i] = "first_name ILIKE" =>
              \/ ILike(row.first_name, stmt.params[i])
              \/ ILike(row.last_name, stmt.params[i + 1])

RECURSIVE SelectPatients(_, _)
SelectPatients(rows, stmt) ==
    IF rows = <<>> THEN <<>>
    ELSE (IF PatientMatches(Head(rows), stmt) THEN <<Head(rows)>> ELSE <<>>)
         \o SelectPatients(Tail(rows), stmt)

RECURSIVE RowsOfPatient(_, _)
RowsOfPatient(rows, pid) ==
    IF rows = <<>> THEN <<>>
    ELSE (IF Head(rows).patient_id = pid THEN <<Head(rows)>> ELSE <<>>)
         \o RowsOfPatient(Tail(rows), pid)

\* The rows of "select * from patients where patient_id = %s".
FetchPatient(stmt) ==
    RowsOfPatient(patients, ParamFor(stmt, "patient_id").v)

\* fetchall() of a timeline query (newest first for notes).
TimelineRows(table, stmt) ==
    LET pid == ParamFor(stmt, "patient_id").v
    IN  Limited(stmt,
                IF table = "notes"
                THEN Reverse(MapIds(RowsOfPatient(notes, pid), "note_id"))
                ELSE StaticRows(table, pid))

----------------------------------------------------------------------------
(* The operations.  connectFails and failAt are the store's choices: whether *)
(* psycopg.connect fails, and which statement of the call (0: none) the      *)
(* store answers with an error.                                              *)

\* db_health(): "select 1", then the schema-existence query whose parameter
\* tuple evaluates _schema() after the first statement has run; the message
\* of the not-found answer evaluates _schema() once more after the with.
db_health(connectFails, failAt, exists) ==
    LET s1 == Stmt("select 1", <<>>, <<>>, <<>>)
        sc == _schema
        s2 == Stmt("schema exists", <<>>, <<"schema_name">>, <<TextV(sc.val)>>)
        body ==
            IF failAt = 1 THEN Raise(<<EvExecute(s1, FALSE)>>, "StoreError")
            ELSE IF ~sc.ok
            THEN Raise(<<EvExecute(s1, TRUE)>> \o sc.events, "InvalidIdentifier")
            ELSE IF failAt = 2
            THEN Raise(<<EvExecute(s1, TRUE)>> \o sc.events
                       \o <<EvExecute(s2, FALSE)>>, "StoreError")
            ELSE Return(<<EvExecute(s1, TRUE)>> \o sc.events
                        \o <<EvExecute(s2, TRUE)>>, exists)
        r == WithConn(<<>>, connectFails, body)
    IN  IF r.outcome.kind = "raise" THEN r
        ELSE IF r.outcome.value THEN Return(r.events, "OK")
        ELSE Return(r.events \o sc.events, "schema not found")

\* list_tables(): the schema name is validated first and bound as a value.
list_tables(connectFails, failAt) ==
    LET sc == _schema
        q == Stmt("list_tables", <<>>, <<"table_schema">>, <<TextV(sc.val)>>)
    IN  IF ~sc.ok THEN Raise(sc.events, "InvalidIdentifier")
        ELSE WithConn(sc.events, connectFails, Exec1(q, failAt = 1, SchemaTables))

\* Mutant of SearchParams: a name filter binds one value for its two
\* placeholders.
SearchParamsOneLike(name, mrn, limit) ==
    (IF ~Falsy(mrn) THEN <<TextV(mrn)>> ELSE <<>>)
    \o (IF ~Falsy(name) THEN <<TextV(<<"%">> \o name \o <<"%">>)>> ELSE <<>>)
    \o <<IntV(limit)>>

\* The params list of search_patients.
SearchParams(name, mrn, limit) ==
    (IF ~Falsy(mrn) THEN <<TextV(mrn)>> ELSE <<>>)
    \o (IF ~Falsy(name)
        THEN LET like == TextV(<<"%">> \o name \o <<"%">>) IN <<like, like>>
        ELSE <<>>)
    \o <<IntV(limit)>>

\* The placeholders of the text search_patients builds: the where clauses in
\* the order they were appended, then "limit %s".
SearchPlaceholders(name, mrn) ==
    (IF ~Falsy(mrn) THEN <<"mrn">> ELSE <<>>)
    \o (IF ~Falsy(name) THEN <<"first_name ILIKE", "last_name ILIKE">> ELSE <<>>)
    \o <<"limit">>

search_patients(name, mrn, limit, connectFails, failAt) ==
    IF LimitOutOfRange(limit) THEN Raise(<<>>, "OutOfRange")
    ELSE LET t == QTables(<<"patients">>)
             q == Stmt("search_patients", t.idents,
                       SearchPlaceholders(name, mrn),
                       SearchParams(name, mrn, limit))
         IN  IF ~t.ok THEN Raise(t.events, "InvalidIdentifier")
             ELSE WithConn(t.events, connectFails,
                      Exec1(q, failAt = 1,
                            Limited(q, SelectPatients(patients, q))))

\* get_patient(patient_id): the row, or the sentinel when fetchone() is None.
get_patient(patient_id, connectFails, failAt) ==
    LET t == QTables(<<"patients">>)
        q == Stmt("get_patient", t.idents, <<"patient_id">>, <<IntV(patient_id)>>)
        r == IF ~t.ok THEN Raise(t.events, "InvalidIdentifier")
             ELSE WithConn(t.events, connectFails,
                           Exec1(q, failAt = 1, FetchPatient(q)))
    IN  IF r.outcome.kind = "raise" THEN r
        ELSE IF r.outcome.value = <<>>
        THEN Return(r.events, [error |-> "patient not found"])
        ELSE Return(r.events, Head(r.outcome.value))

\* A read operation of one statement over `tables` whose text has the
\* placeholders `roles` and whose rows come from the first table.
ReadByPatient(name, tables, roles, params, connectFails, failAt) ==
    LET t == QTables(tables)
        q == Stmt(name, t.idents, roles, params)
    IN  IF ~t.ok THEN Raise(t.events, "InvalidIdentifier")
        ELSE WithConn(t.events, connectFails,
                 Exec1(q, failAt = 1,
                       Limited(q, StaticRows(Head(tables), params[1].v))))

get_patient_contacts(patient_id, connectFails, failAt) ==
    ReadByPatient("get_patient_contacts", <<"patient_contacts">>,
                  <<"patient_id">>, <<IntV(patient_id)>>, connectFails, failAt)

\* The appointments with `column` = id that the store's clock puts in the
\* window [now(), now() + days): `visible` is the store's answer to that.
UpcomingRows(column, id, visible) ==
    LET Sel[i \in 0..Len(appointments)] ==
            IF i = 0 THEN <<>>
            ELSE Sel[i - 1]
                 \o (IF appointments[i][column] = IntV(id) /\ i \in visible
                     THEN <<appointments[i].appointment_id>> ELSE <<>>)
    IN  Sel[Len(appointments)]

upcoming_appointments_for_patient(patient_id, days, limit, connectFails, failAt, visible) ==
    IF DaysOutOfRange(days) THEN Raise(<<>>, "OutOfRange")
    ELSE IF LimitOutOfRange(limit) THEN Raise(<<>>, "OutOfRange")
    ELSE LET t == QTables(<<"appointments", "providers", "departments">>)
             q == Stmt("upcoming_appointments_for_patient", t.idents,
                       <<"patient_id", "days", "limit">>,
                       <<IntV(patient_id), IntV(days), IntV(limit)>>)
         IN  IF ~t.ok THEN Raise(t.events, "InvalidIdentifier")
             ELSE WithConn(t.events, connectFails,
                      Exec1(q, failAt = 1,
                            Limited(q, UpcomingRows("patient_id",
                                                    patient_id, visible))))

upcoming_appointments_for_provider(provider_id, days, limit, connectFails, failAt, visible) ==
    IF DaysOutOfRange(days) THEN Raise(<<>>, "OutOfRange")
    ELSE IF LimitOutOfRange(limit) THEN Raise(<<>>, "OutOfRange")
    ELSE LET t == QTables(<<"appointments", "patients", "departments">>)
             q == Stmt("upcoming_appointments_for_provider", t.idents,
                       <<"provider_id", "days", "limit">>,
                       <<IntV(provider_id), IntV(days), IntV(limit)>>)
         IN  IF ~t.ok THEN Raise(t.events, "InvalidIdentifier")
             ELSE WithConn(t.events, connectFails,
                      Exec1(q, failAt = 1,
                            Limited(q, UpcomingRows("provider_id",
                                                    provider_id, visible))))

\* Mutant of TimelineTables: the notes query runs before the encounters query.
TimelineTablesNotesFirst ==
    <<"cases", "notes", "encounters", "tasks", "communications">>

\* The five queries of patient_case_timeline, in the order of the source.
TimelineTables == <<"cases", "encounters", "notes", "tasks", "communications">>

\* Mutant of TimelineBody: a failing query contributes an empty sequence and
\* the remaining queries still run.
RECURSIVE TimelineBodyPartial(_, _, _, _, _, _)
TimelineBodyPartial(i, patient_id, limit_per_type, failAt, events, results) ==
    IF i > Len(TimelineTables)
    THEN Return(events, [patient_id |-> patient_id,
                         cases |-> results[1], encounters |-> results[2],
                         notes |-> results[3], tasks |-> results[4],
                         communications |-> results[5]])
    ELSE LET t == _q_table(Chars(TimelineTables[i]))
             q == Stmt(TimelineTables[i], t.idents, <<"patient_id", "limit">>,
                       <<IntV(patient_id), IntV(limit_per_type)>>)
         IN  IF ~t.ok THEN Raise(events \o t.events, "InvalidIdentifier")
             ELSE TimelineBodyPartial(i + 1, patient_id, limit_per_type, failAt,
                      events \o t.events \o <<EvExecute(q, failAt # i)>>,
                      Append(results,
                             IF failAt = i THEN <<>>
                             ELSE TimelineRows(TimelineTables[i], q)))

\* The body of the with block of patient_case_timeline from query i on: each
\* query's f-string validates its table, the query runs, and its fetchall()
\* is kept; an error ends the body.
RECURSIVE TimelineBody(_, _, _, _, _, _)
TimelineBody(i, patient_id, limit_per_type, failAt, events, results) ==
    IF i > Len(TimelineTables)
    THEN Return(events, [patient_id |-> patient_id,
                         cases |-> results[1], encounters |-> results[2],
                         notes |-> results[3], tasks |-> results[4],
                         communications |-> results[5]])
    ELSE LET t == _q_table(Chars(TimelineTables[i]))
             q == Stmt(TimelineTables[i], t.idents, <<"patient_id", "limit">>,
                       <<IntV(patient_id), IntV(limit_per_type)>>)
         IN  IF ~t.ok THEN Raise(events \o t.events, "InvalidIdentifier")
             ELSE IF failAt = i
             THEN Raise(events \o t.events \o <<EvExecute(q, FALSE)>>,
                        "StoreError")
             ELSE TimelineBody(i + 1, patient_id, limit_per_type, failAt,
                      events \o t.events \o <<EvExecute(q, TRUE)>>,
                      Append(results, TimelineRows(TimelineTables[i], q)))

patient_case_timeline(patient_id, limit_per_type, connectFails, failAt) ==
    IF LimitOutOfRange(limit_per_type) THEN Raise(<<>>, "OutOfRange")
    ELSE WithConn(<<>>, connectFails,
             TimelineBody(1, patient_id, limit_per_type, failAt, <<>>, <<>>))

outstanding_invoices(patient_id, limit, connectFails, failAt) ==
    IF LimitOutOfRange(limit) THEN Raise(<<>>, "OutOfRange")
    ELSE ReadByPatient("outstanding_invoices", <<"invoices", "payments">>,
                       <<"patient_id", "limit">>,
                       <<IntV(patient_id), IntV(limit)>>, connectFails, failAt)

claim_status_for_patient(patient_id, limit, connectFails, failAt) ==
    IF LimitOutOfRange(limit) THEN Raise(<<>>, "OutOfRange")
    ELSE ReadByPatient("claim_status_for_patient", <<"claims", "payers">>,
                       <<"patient_id", "limit">>,
                       <<IntV(patient_id), IntV(limit)>>, connectFails, failAt)

allergies_for_patient(patient_id, connectFails, failAt) ==
    ReadByPatient("allergies_for_patient", <<"allergies">>,
                  <<"patient_id">>, <<IntV(patient_id)>>, connectFails, failAt)

active_prescriptions(patient_id, limit, connectFails, failAt) ==
    IF LimitOutOfRange(limit) THEN Raise(<<>>, "OutOfRange")
    ELSE ReadByPatient("active_prescriptions",
                       <<"prescriptions", "medications">>,
                       <<"patient_id", "limit">>,
                       <<IntV(patient_id), IntV(limit)>>, connectFails, failAt)

----------------------------------------------------------------------------
(* The insert operations.  Arguments the model does not vary are passed as  *)
(* the defaults of the signature.                                           *)

\* rows[n].<id> = n: the store numbers the rows of a table from 1.
NextId(rows) == Len(rows) + 1

\* Mutant of create_patient: the names are bound as given, not stripped.
create_patient_NoStrip(first_name, last_name, mrn, dob, connectFails, failAt) ==
    IF Falsy(first_name) \/ Falsy(Strip(first_name))
    THEN Raise(<<>>, "MissingRequiredField")
    ELSE IF Falsy(last_name) \/ Falsy(Strip(last_name))
    THEN Raise(<<>>, "MissingRequiredField")
    ELSE LET dob_val == _parse_date(dob)
             t == QTables(<<"patients">>)
             q == InsertStmt("create_patient", t.idents,
                     <<"mrn", "first_name", "last_name", "dob", "sex", "phone",
                       "email", "address_line1", "address_line2", "city",
                       "state", "postal_code", "country", "status",
                       "created_at", "updated_at">>,
                     <<"%s", "%s", "%s", "%s", "%s", "%s", "%s",
                       "%s", "%s", "%s", "%s", "%s", "%s", "%s",
                       "now()", "now()">>,
                     <<TextV(mrn), TextV(first_name), TextV(last_name),
                       TextV(dob_val.val), Null, Null, Null,
                       Null, Null, Null, Null, Null,
                       TextV(<<"U","S","A">>),
                       TextV(<<"a","c","t","i","v","e">>)>>)
         IN  IF ~dob_val.ok THEN Raise(<<>>, "InvalidDate")
             ELSE IF ~t.ok THEN Raise(t.events, "InvalidIdentifier")
             ELSE WithConn(t.events, connectFails,
                      Exec1(q, failAt = 1,
                            [patient_id |-> NextId(patients),
                             mrn |-> ParamFor(q, "mrn"),
                             first_name |-> ParamFor(q, "first_name"),
                             last_name |-> ParamFor(q, "last_name")]))

\* create_patient(first_name, last_name, mrn, dob): the returned record is
\* the inserted row as the store holds it (RETURNING), with the id the store
\* assigned.
create_patient(first_name, last_name, mrn, dob, connectFails, failAt) ==
    IF Falsy(first_name) \/ Falsy(Strip(first_name))
    THEN Raise(<<>>, "MissingRequiredField")
    ELSE IF Falsy(last_name) \/ Falsy(Strip(last_name))
    THEN Raise(<<>>, "MissingRequiredField")
    ELSE LET dob_val == _parse_date(dob)
             t == QTables(<<"patients">>)
             q == InsertStmt("create_patient", t.idents,
                     <<"mrn", "first_name", "last_name", "dob", "sex", "phone",
                       "email", "address_line1", "address_line2", "city",
                       "state", "postal_code", "country", "status",
                       "created_at", "updated_at">>,
                     <<"%s", "%s", "%s", "%s", "%s", "%s", "%s",
                       "%s", "%s", "%s", "%s", "%s", "%s", "%s",
                       "now()", "now()">>,
                     <<TextV(mrn), TextV(Strip(first_name)),
                       TextV(Strip(last_name)),
                       TextV(dob_val.val), Null, Null, Null,
                       Null, Null, Null, Null, Null,
                       TextV(<<"U","S","A">>),
                       TextV(<<"a","c","t","i","v","e">>)>>)
         IN  IF ~dob_val.ok THEN Raise(<<>>, "InvalidDate")
             ELSE IF ~t.ok THEN Raise(t.events, "InvalidIdentifier")
             ELSE WithConn(t.events, connectFails,
                      Exec1(q, failAt = 1,
                            [patient_id |-> NextId(patients),
                             mrn |-> ParamFor(q, "mrn"),
                             first_name |-> ParamFor(q, "first_name"),
                             last_name |-> ParamFor(q, "last_name")]))

\* create_appointment(patient_id, starts_at, ends_at, provider_id).
create_appointment(patient_id, starts_at, ends_at, provider_id, connectFails, failAt) ==
    IF patient_id = 0 THEN Raise(<<>>, "MissingRequiredField")
    ELSE LET starts_at_val == _parse_ts(starts_at)
             ends_at_val == IF ~Falsy(ends_at) THEN _parse_ts(ends_at)
                            ELSE [ok |-> TRUE, val |-> NONE]
             t == QTables(<<"appointments">>)
             q == InsertStmt("create_appointment", t.idents,
                     <<"patient_id", "provider_id", "department_id", "case_id",
                       "starts_at", "ends_at", "status", "reason", "location",
                       "created_at">>,
                     <<"%s", "%s", "%s", "%s",
                       "%s", "%s", "%s", "%s", "%s", "now()">>,
                     <<IntV(patient_id), provider_id, Null, Null,
                       TextV(starts_at_val.val), TextV(ends_at_val.val),
                       TextV(<<"s","c","h","e","d","u","l","e","d">>),
                       Null, Null>>)
         IN  IF ~starts_at_val.ok THEN Raise(<<>>, "MissingTimestamp")
             ELSE IF ~ends_at_val.ok THEN Raise(<<>>, "MissingTimestamp")
             ELSE IF ~t.ok THEN Raise(t.events, "InvalidIdentifier")
             ELSE WithConn(t.events, connectFails,
                      Exec1(q, failAt = 1,
                            [appointment_id |-> NextId(appointments),
                             patient_id |-> ParamFor(q, "patient_id"),
                             provider_id |-> ParamFor(q, "provider_id"),
                             starts_at |-> ParamFor(q, "starts_at")]))

\* create_note(patient_id, body).
create_note(patient_id, body, connectFails, failAt) ==
    IF patient_id = 0 THEN Raise(<<>>, "MissingRequiredField")
    ELSE IF Falsy(body) \/ Falsy(Strip(body))
    THEN Raise(<<>>, "MissingRequiredField")
    ELSE LET t == QTables(<<"notes">>)
             q == InsertStmt("create_note", t.idents,
                     <<"patient_id", "case_id", "appointment_id",
                       "author_provider_id", "note_type", "body",
                       "created_at">>,
                     <<"%s", "%s", "%s", "%s", "%s", "%s", "now()">>,
                     <<IntV(patient_id), Null, Null, Null,
                       TextV(<<"g","e","n","e","r","a","l">>),
                       TextV(Strip(body))>>)
         IN  IF ~t.ok THEN Raise(t.events, "InvalidIdentifier")
             ELSE WithConn(t.events, connectFails,
                      Exec1(q, failAt = 1,
                            [note_id |-> NextId(notes),
                             patient_id |-> ParamFor(q, "patient_id").v,
                             body |-> ParamFor(q, "body")]))

\* hospital_summary(): the resource text names the validated schema.
hospital_summary ==
    LET sc == _schema
    IN  IF ~sc.ok THEN Raise(sc.events, "InvalidIdentifier")
        ELSE Return(sc.events, "summary")

----------------------------------------------------------------------------
(* Inputs *)

\* Configured schema names: a valid one, the same followed by a newline, the
\* empty name, one starting with a digit, one with a character outside the
\* grammar.
SchemaNames ==
    { <<"c","r","m","_","1">>, <<"c","r","m","\n">>, <<>>,
      <<"1","c","r","m">>, <<"c","r","-","m">> }

Limits == {0, 1, MaxLimit, MaxLimit + 1}
DayWindows == {0, 1, MaxDays, MaxDays + 1}
ReadIds == {1, 2}
LookupIds == 1..(MaxRows + 1)
FailPoints == 0..1

FirstNames == { <<>>, <<" ">>, <<"A","n","a">>, <<" ","A","n","a"," ">> }
LastNames == { <<>>, <<"R","u","i","z">>, <<"R","u","i","z","\t">> }
Mrns == { NONE, <<"M","-","1">> }
SearchNames == { NONE, <<>>, <<"a","n">> }
SearchMrns == { NONE, <<>>, <<"M","-","1">> }
Dobs == { NONE, <<>>,
          <<"2","0","2","4","-","0","2","-","2","9">>,
          <<"2","0","2","3","-","0","2","-","2","9">> }
Timestamps == { NONE, <<>>, <<" ","\t">>,
                <<" ","2","0","2","6","-","0","1","-","2","5"," ">> }
EndTimestamps == { NONE, <<" ">>,
                   <<"2","0","2","6","-","0","1","-","2","6">> }
RequiredIds == {0, 1}
OptionalIds == { Null, IntV(1) }
Bodies == { <<>>, <<" ">>, <<"o","k"," ">> }

----------------------------------------------------------------------------
(* State machine *)

Idle == [op |-> "idle", args |-> <<>>, events |-> <<>>,
         outcome |-> [kind |-> "none"]]

\* The record a call leaves: r is the [events, outcome] of the handler.
Called(op, args, r) ==
    [op |-> op, args |-> args, events |-> r.events, outcome |-> r.outcome]

Init ==
    /\ DATABASE_URL \in BOOLEAN
    /\ DB_SCHEMA \in SchemaNames
    /\ patients = <<>>
    /\ appointments = <<>>
    /\ notes = <<>>
    /\ call = Idle

\* A call that changes no table.
ReadCall(op, args, r) ==
    /\ call = Idle
    /\ call' = Called(op, args, r)
    /\ UNCHANGED <<DATABASE_URL, DB_SCHEMA, patients, appointments, notes>>

DbHealth ==
    \E connectFails \in BOOLEAN, failAt \in 0..2, exists \in BOOLEAN :
        ReadCall("db_health", <<>>, db_health(connectFails, failAt, exists))

ListTables ==
    \E connectFails \in BOOLEAN, failAt \in FailPoints :
        ReadCall("list_tables", <<>>, list_tables(connectFails, failAt))

SearchPatients ==
    \E name \in SearchNames, mrn \in SearchMrns, limit \in Limits,
       connectFails \in BOOLEAN, failAt \in FailPoints :
        ReadCall("search_patients",
                 [name |-> name, mrn |-> mrn, limit |-> limit],
                 search_patients(name, mrn, limit, connectFails, failAt))

GetPatient ==
    \E patient_id \in LookupIds,
       connectFails \in BOOLEAN, failAt \in FailPoints :
        ReadCall("get_patient", [patient_id |-> patient_id],
                 get_patient(patient_id, connectFails, failAt))

GetPatientContacts ==
    \E patient_id \in ReadIds,
       connectFails \in BOOLEAN, failAt \in FailPoints :
        ReadCall("get_patient_contacts", [patient_id |-> patient_id],
                 get_patient_contacts(patient_id, connectFails, failAt))

UpcomingForPatient ==
    \E patient_id \in ReadIds, days \in DayWindows, limit \in Limits,
       connectFails \in BOOLEAN, failAt \in FailPoints,
       visible \in SUBSET (1..Len(appointments)) :
        ReadCall("upcoming_appointments_for_patient",
                 [patient_id |-> patient_id, days |-> days, limit |-> limit],
                 upcoming_appointments_for_patient(
                     patient_id, days, limit, connectFails, failAt, visible))

UpcomingForProvider ==
    \E provider_id \in ReadIds, days \in DayWindows, limit \in Limits,
       connectFails \in BOOLEAN, failAt \in FailPoints,
       visible \in SUBSET (1..Len(appointments)) :
        ReadCall("upcoming_appointments_for_provider",
                 [provider_id |-> provider_id, days |-> days, limit |-> limit],
                 upcoming_appointments_for_provider(
                     provider_id, days, limit, connectFails, failAt, visible))

PatientCaseTimeline ==
    \E patient_id \in ReadIds, limit_per_type \in Limits,
       connectFails \in BOOLEAN, failAt \in 0..Len(TimelineTables) :
        ReadCall("patient_case_timeline",
                 [patient_id |-> patient_id, limit |-> limit_per_type],
                 patient_case_timeline(patient_id, limit_per_type,
                                       connectFails, failAt))

OutstandingInvoices ==
    \E patient_id \in ReadIds, limit \in Limits,
       connectFails \in BOOLEAN, failAt \in FailPoints :
        ReadCall("outstanding_invoices",
                 [patient_id |-> patient_id, limit |-> limit],
                 outstanding_invoices(patient_id, limit, connectFails, failAt))

ClaimStatusForPatient ==
    \E patient_id \in ReadIds, limit \in Limits,
       connectFails \in BOOLEAN, failAt \in FailPoints :
        ReadCall("claim_status_for_patient",
                 [patient_id |-> patient_id, limit |-> limit],
                 claim_status_for_patient(patient_id, limit,
                                          connectFails, failAt))

AllergiesForPatient ==
    \E patient_id \in ReadIds,
       connectFails \in BOOLEAN, failAt \in FailPoints :
        ReadCall("allergies_for_patient", [patient_id |-> patient_id],
                 allergies_for_patient(patient_id, connectFails, failAt))

ActivePrescriptions ==
    \E patient_id \in ReadIds, limit \in Limits,
       connectFails \in BOOLEAN, failAt \in FailPoints :
        ReadCall("active_prescriptions",
                 [patient_id |-> patient_id, limit |-> limit],
                 active_prescriptions(patient_id, limit, connectFails, failAt))

HospitalSummary == ReadCall("hospital_summary", <<>>, hospital_summary)

InsertedRows == Len(patients) + Len(appointments) + Len(notes)

\* An insert: the row the statement returns is in the table iff the statement
\* succeeded (autocommit).  Inserts beyond MaxRows rows are left
\* out of the model.
CreatePatient ==
    \E first_name \in FirstNames, last_name \in LastNames, mrn \in Mrns,
       dob \in Dobs, connectFails \in BOOLEAN, failAt \in FailPoints :
        LET r == create_patient(first_name, last_name, mrn, dob,
                                connectFails, failAt)
        IN  /\ call = Idle
            /\ r.outcome.kind = "return" => InsertedRows < MaxRows
            /\ call' = Called("create_patient",
                              [first_name |-> first_name,
                               last_name |-> last_name,
                               mrn |-> mrn, dob |-> dob], r)
            /\ patients' = IF r.outcome.kind = "return"
                           THEN Append(patients, r.outcome.value)
                           ELSE patients
            /\ UNCHANGED <<DATABASE_URL, DB_SCHEMA, appointments, notes>>

CreateAppointment ==
    \E patient_id \in RequiredIds, starts_at \in Timestamps,
       ends_at \in EndTimestamps, provider_id \in OptionalIds,
       connectFails \in BOOLEAN, failAt \in FailPoints :
        LET r == create_appointment(patient_id, starts_at, ends_at,
                                    provider_id, connectFails, failAt)
        IN  /\ call = Idle
            /\ r.outcome.kind = "return" => InsertedRows < MaxRows
            /\ call' = Called("create_appointment",
                              [patient_id |-> patient_id,
                               starts_at |-> starts_at, ends_at |-> ends_at,
                               provider_id |-> provider_id], r)
            /\ appointments' = IF r.outcome.kind = "return"
                               THEN Append(appointments, r.outcome.value)
                               ELSE appointments
            /\ UNCHANGED <<DATABASE_URL, DB_SCHEMA, patients, notes>>

CreateNote ==
    \E patient_id \in RequiredIds, body \in Bodies,
       connectFails \in BOOLEAN, failAt \in FailPoints :
        LET r == create_note(patient_id, body, connectFails, failAt)
        IN  /\ call = Idle
            /\ r.outcome.kind = "return" => InsertedRows < MaxRows
            /\ call' = Called("create_note",
                              [patient_id |-> patient_id, body |-> body], r)
            /\ notes' = IF r.outcome.kind = "return"
                        THEN Append(notes, r.outcome.value)
                        ELSE notes
            /\ UNCHANGED <<DATABASE_URL, DB_SCHEMA, patients, appointments>>

\* The transport hands the outcome to the caller; the next call can start.
Deliver ==
    /\ call # Idle
    /\ call' = Idle
    /\ UNCHANGED <<DATABASE_URL, DB_SCHEMA, patients, appointments, notes>>

Next ==
    \/ DbHealth
    \/ ListTables
    \/ SearchPatients
    \/ GetPatient
    \/ GetPatientContacts
    \/ UpcomingForPatient
    \/ UpcomingForProvider
    \/ PatientCaseTimeline
    \/ OutstandingInvoices
    \/ ClaimStatusForPatient
    \/ AllergiesForPatient
    \/ ActivePrescriptions
    \/ HospitalSummary
    \/ CreatePatient
    \/ CreateAppointment
    \/ CreateNote
    \/ Deliver

Spec == Init /\ [][Next]_vars

----------------------------------------------------------------------------
(* Properties: vocabulary *)

RECURSIVE Filter(_, _)
Filter(events, kind) ==
    IF events = <<>> THEN <<>>
    ELSE (IF Head(events).ev = kind THEN <<Head(events)>> ELSE <<>>)
         \o Filter(Tail(events), kind)

\* The statements the call sent to the store, in order.
Executed == Filter(call.events, "execute")
NumExecuted == Len(Executed)
NumAcquired == Len(Filter(call.events, "acquire"))
NumReleased == Len(Filter(call.events, "release"))

Raised(err) == call.outcome.kind = "raise" /\ call.outcome.err = err
Returned == call.outcome.kind = "return"

ValidationErrors ==
    {"InvalidIdentifier", "InvalidDate", "MissingTimestamp", "OutOfRange",
     "MissingRequiredField"}

LimitOps ==
    {"search_patients", "upcoming_appointments_for_patient",
     "upcoming_appointments_for_provider", "patient_case_timeline",
     "outstanding_invoices", "claim_status_for_patient",
     "active_prescriptions"}

DaysOps ==
    {"upcoming_appointments_for_patient", "upcoming_appointments_for_provider"}

MultiRowReadOps ==
    LimitOps \cup {"list_tables", "get_patient_contacts",
                   "allergies_for_patient"}

\* The grammar ^[A-Za-z_][A-Za-z0-9_]*$ read as a set of strings: the whole
\* string is a letter or underscore followed by letters, digits, underscores.
InGrammar(s) ==
    /\ Len(s) >= 1
    /\ s[1] \in Letters \cup {"_"}
    /\ \A i \in 2..Len(s) : s[i] \in Letters \cup Digits \cup {"_"}

\* Text that is empty, absent, or whitespace only.
Blank(s) == s = NONE \/ \A i \in 1..Len(s) : s[i] \in Whitespace

\* Text without its leading and trailing whitespace, stated directly: the
\* longest slice that neither starts nor ends with whitespace.
Trimmed(s) ==
    IF Blank(s) THEN <<>>
    ELSE LET lo == CHOOSE i \in 1..Len(s) :
                     /\ s[i] \notin Whitespace
                     /\ \A j \in 1..(i - 1) : s[j] \in Whitespace
             hi == CHOOSE i \in 1..Len(s) :
                     /\ s[i] \notin Whitespace
                     /\ \A j \in (i + 1)..Len(s) : s[j] \in Whitespace
         IN  SubSeq(s, lo, hi)

----------------------------------------------------------------------------
(* C1 *)

\* C1: a call that ends with a validation error (invalid identifier, invalid
\* date, missing timestamp, out-of-range limit/days, missing required field)
\* has sent no statement to the store.
C1_ValidationBeforeStatements ==
    (call.outcome.kind = "raise" /\ call.outcome.err \in ValidationErrors)
        => NumExecuted = 0

----------------------------------------------------------------------------
(* C2 *)

\* C2: an operation taking a limit (or limit_per_type) or a day window fails
\* with the out-of-range error exactly when limit is outside 1..200 or days
\* is outside 1..365, and then acquires no connection and sends no statement;
\* so the boundary values 1, 200 and 365 are accepted.
C2_OutOfRangeExactly ==
    call.op \in LimitOps =>
        LET bad == \/ call.args.limit \notin 1..200
                   \/ call.op \in DaysOps /\ call.args.days \notin 1..365
        IN  /\ Raised("OutOfRange") <=> bad
            /\ bad => NumAcquired = 0 /\ NumExecuted = 0

C2_Witness ==
    /\ call.op = "upcoming_appointments_for_patient"
    /\ call.args.limit = 200
    /\ call.args.days = 366
    /\ Raised("OutOfRange")

----------------------------------------------------------------------------
(* C3 *)

\* C3: every statement sent by a multi-row read operation has a "limit %s"
\* placeholder whose bound value is in 1..200.
C3_EveryReadIsLimited ==
    call.op \in MultiRowReadOps =>
        \A k \in 1..NumExecuted :
            LET q == Executed[k].stmt
            IN  \E i \in 1..Len(q.placeholders) :
                    /\ q.placeholders[i] = "limit"
                    /\ i <= Len(q.params)
                    /\ q.params[i].t = "int"
                    /\ q.params[i].v \in 1..200

----------------------------------------------------------------------------
(* C4 *)

\* The number of connections open after the first k events of the call.
OpenAfter(k) ==
    Len(Filter(SubSeq(call.events, 1, k), "acquire"))
    - Len(Filter(SubSeq(call.events, 1, k), "release"))

\* C4: a call acquires at most one connection, statements are sent only
\* while it is open, and whatever the outcome (return, validation error after
\* the connection was opened, store error) no connection is open when the
\* call ends.
C4_ConnectionScopedToCall ==
    /\ NumAcquired <= 1
    /\ \A k \in 1..Len(call.events) :
          /\ OpenAfter(k) \in {0, 1}
          /\ call.events[k].ev = "execute" => OpenAfter(k) = 1
    /\ OpenAfter(Len(call.events)) = 0

C4_Witness ==
    /\ call.op = "patient_case_timeline"
    /\ Raised("StoreError")
    /\ NumExecuted = 3
    /\ NumAcquired = 1 /\ NumReleased = 1

----------------------------------------------------------------------------
(* C5 *)

\* The names of the statements the call sent, in order.
ExecutedNames == [k \in 1..NumExecuted |-> Executed[k].stmt.name]

IsPrefix(s, t) == Len(s) <= Len(t) /\ \A i \in 1..Len(s) : s[i] = t[i]

----------------------------------------------------------------------------
(* C6 *)

\* The ids of the notes of a patient.
NoteIdsOf(pid) ==
    {notes[i].note_id : i \in {j \in 1..Len(notes) : notes[j].patient_id = pid}}

\* s lists the `limit` newest (largest) ids of the set, newest first.
NewestFirst(s, ids, limit) ==
    /\ Len(s) = Min(limit, Cardinality(ids))
    /\ \A i \in 1..Len(s) : s[i] \in ids
    /\ \A i \in 1..(Len(s) - 1) : s[i] > s[i + 1]
    /\ \A x \in ids : (\A i \in 1..Len(s) : s[i] # x) =>
                          \A i \in 1..Len(s) : x < s[i]

\* C6: if one of the statements of patient_case_timeline fails, the call
\* raises the store error, that statement is the last one sent and nothing is
\* returned; if the call returns, all five statements succeeded and the value
\* has exactly the keys patient_id, cases, encounters, notes, tasks,
\* communications, each sequence holding the patient's rows of that table up
\* to the limit -- the empty sequence when the patient has none.
C6_TimelineAllOrNothing ==
    call.op = "patient_case_timeline" =>
        /\ (\E k \in 1..NumExecuted : ~Executed[k].ok) =>
              /\ Raised("StoreError")
              /\ ~Executed[NumExecuted].ok
              /\ \A k \in 1..(NumExecuted - 1) : Executed[k].ok
        /\ Returned =>
              LET v == call.outcome.value
                  pid == call.args.patient_id
                  lim == call.args.limit
              IN  /\ NumExecuted = 5
                  /\ \A k \in 1..NumExecuted : Executed[k].ok
                  /\ DOMAIN v = {"patient_id", "cases", "encounters", "notes",
                                 "tasks", "communications"}
                  /\ v.patient_id = pid
                  /\ \A key \in {"cases", "encounters", "tasks",
                                 "communications"} :
                        v[key] = SubSeq(StaticRows(key, pid), 1,
                                        Min(lim, Len(StaticRows(key, pid))))
                  /\ NewestFirst(v.notes, NoteIdsOf(pid), lim)

C6_Witness ==
    /\ call.op = "patient_case_timeline"
    /\ Returned
    /\ call.outcome.value.communications = <<>>
    /\ call.outcome.value.cases # <<>>
    /\ call.outcome.value.notes # <<>>

----------------------------------------------------------------------------
(* C7 *)

\* The value an operation is to bind for a placeholder of the given role,
\* from the arguments of the call.
ExpectedParam(role) ==
    CASE role = "limit" -> IntV(call.args.limit)
      [] role = "days" -> IntV(call.args.days)
      [] role = "patient_id" -> IntV(call.args.patient_id)
      [] role = "provider_id" ->
            IF call.op = "create_appointment" THEN call.args.provider_id
            ELSE IntV(call.args.provider_id)
      [] role \in {"schema_name", "table_schema"} -> TextV(DB_SCHEMA)
      [] role = "mrn" -> TextV(call.args.mrn)
      [] role \in {"first_name ILIKE", "last_name ILIKE"} ->
            TextV(<<"%">> \o call.args.name \o <<"%">>)
      [] role = "first_name" -> TextV(Trimmed(call.args.first_name))
      [] role = "last_name" -> TextV(Trimmed(call.args.last_name))
      [] role = "dob" ->
            IF call.args.dob = <<>> THEN Null ELSE TextV(call.args.dob)
      [] role = "starts_at" -> TextV(Trimmed(call.args.starts_at))
      [] role = "ends_at" ->
            IF call.args.ends_at \in {NONE, <<>>} THEN Null
            ELSE TextV(Trimmed(call.args.ends_at))
      [] role = "body" -> TextV(Trimmed(call.args.body))
      [] role = "country" -> TextV(<<"U","S","A">>)
      [] role = "note_type" -> TextV(<<"g","e","n","e","r","a","l">>)
      [] role = "status" ->
            IF call.op = "create_patient"
            THEN TextV(<<"a","c","t","i","v","e">>)
            ELSE TextV(<<"s","c","h","e","d","u","l","e","d">>)
      [] OTHER -> Null

Given(s) == s # NONE /\ s # <<>>

----------------------------------------------------------------------------
(* C8 *)

\* C8 as stated: a create_appointment call whose starts_at is empty or blank
\* fails with the missing-timestamp error whatever its other arguments, and
\* leaves the appointment rows as they were.
C8_Original_BlankStartIsMissingTimestamp ==
    [][(call'.op = "create_appointment" /\ Blank(call'.args.starts_at)) =>
          /\ call'.outcome.kind = "raise"
          /\ call'.outcome.err = "MissingTimestamp"
          /\ appointments' = appointments]_vars

\* C8 amended: such a call always fails and leaves the appointment rows as
\* they were; the error is the missing-timestamp error when patient_id is
\* given (non-zero), and the missing-required-field error of the patient_id
\* check, which comes first, when it is not.
C8_BlankStartNeverInserts ==
    [][(call'.op = "create_appointment" /\ Blank(call'.args.starts_at)) =>
          /\ call'.outcome.kind = "raise"
          /\ call'.outcome.err =
                (IF call'.args.patient_id # 0 THEN "MissingTimestamp"
                 ELSE "MissingRequiredField")
          /\ Len(Filter(call'.events, "execute")) = 0
          /\ appointments' = appointments]_vars

C8_Witness ==
    /\ call.op = "create_appointment"
    /\ call.args.starts_at = <<" ", "\t">>
    /\ call.args.patient_id = 1
    /\ Raised("MissingTimestamp")
    /\ NumExecuted = 0

----------------------------------------------------------------------------
(* C9 *)

HasPatient(id) == \E i \in 1..Len(patients) : patients[i].patient_id = id

NotFound == [error |-> "patient not found"]

\* get_patient(id) called in the current state, the store answering normally.
LookupNow(id) == get_patient(id, FALSE, 0).outcome

\* C9 as stated: after create_patient(first_name, last_name, mrn) returned,
\* get_patient of the returned id returns a record with that id whose
\* first_name, last_name and mrn equal the inputs; and a get_patient whose
\* statement succeeded for an id no patient has returns the not-found
\* sentinel.
C9_Original_RoundTripEqualsInputs ==
    /\ (call.op = "create_patient" /\ Returned) =>
          LET g == LookupNow(call.outcome.value.patient_id)
          IN  /\ g.kind = "return"
              /\ "error" \notin DOMAIN g.value
              /\ g.value.patient_id = call.outcome.value.patient_id
              /\ g.value.first_name = TextV(call.args.first_name)
              /\ g.value.last_name = TextV(call.args.last_name)
              /\ g.value.mrn = TextV(call.args.mrn)
    /\ (/\ call.op = "get_patient"
        /\ NumExecuted = 1 /\ Executed[1].ok
        /\ ~HasPatient(call.args.patient_id)) =>
          Returned /\ call.outcome.value = NotFound

\* C9 amended: the record's first_name and last_name equal the inputs with
\* leading and trailing whitespace removed (mrn equals the input as given).
C9_RoundTripEqualsTrimmedInputs ==
    /\ (call.op = "create_patient" /\ Returned) =>
          LET g == LookupNow(call.outcome.value.patient_id)
          IN  /\ g.kind = "return"
              /\ "error" \notin DOMAIN g.value
              /\ g.value.patient_id = call.outcome.value.patient_id
              /\ g.value.first_name = TextV(Trimmed(call.args.first_name))
              /\ g.value.last_name = TextV(Trimmed(call.args.last_name))
              /\ g.value.mrn = TextV(call.args.mrn)
    /\ (/\ call.op = "get_patient"
        /\ NumExecuted = 1 /\ Executed[1].ok) =>
          /\ Returned
          /\ IF HasPatient(call.args.patient_id)
             THEN /\ "error" \notin DOMAIN call.outcome.value
                  /\ call.outcome.value.patient_id = call.args.patient_id
             ELSE call.outcome.value = NotFound

C9_Witness ==
    /\ call.op = "create_patient"
    /\ Returned
    /\ call.args.first_name = <<" ", "A", "n", "a", " ">>
    /\ call.outcome.value.patient_id = 2
    /\ LookupNow(2).kind = "return"
    /\ LookupNow(2).value.first_name = TextV(<<"A", "n", "a">>)

----------------------------------------------------------------------------
(* C10 *)

\* C10: every identifier validation of a call succeeds exactly when the name
\* is in the grammar ^[A-Za-z_][A-Za-z0-9_]*$ (so the empty name, a name
\* starting with a digit and a valid name followed by a newline fail); a
\* failed validation ends the call with the invalid-identifier error; and
\* every identifier in the text of a statement sent is in the grammar and was
\* validated earlier in the same call.
C10_ValidatorAcceptsExactlyTheGrammar ==
    /\ \A k \in 1..Len(call.events) :
          call.events[k].ev = "validate" =>
              /\ call.events[k].ok <=> InGrammar(call.events[k].name)
              /\ ~call.events[k].ok => Raised("InvalidIdentifier")
    /\ \A k \in 1..Len(call.events) :
          call.events[k].ev = "execute" =>
              \A i \in 1..Len(call.events[k].stmt.idents) :
                  /\ InGrammar(call.events[k].stmt.idents[i])
                  /\ \E j \in 1..(k - 1) :
                        /\ call.events[j].ev = "validate"
                        /\ call.events[j].ok
                        /\ call.events[j].name = call.events[k].stmt.idents[i]

====
